---- MODULE Spec2Model ----
(***************************************************************************)
(* A model of scan_projects.py: the probes of one project directory, the   *)
(* classifier, the scanner over the immediate subdirectories of a root,    *)
(* and main's filter / sort / limit / report pipeline.                     *)
(*                                                                         *)
(* Python values are modelled as follows.                                  *)
(*   str            a sequence of one-character strings, so that split,    *)
(*                  strip, lower, substring search and the code-point      *)
(*                  order of str are computed character by character;      *)
(*                  text that is only printed is a TLA+ string             *)
(*   Optional[x]    <<>> for None, <<x>> for a value                       *)
(*   list           a sequence                                             *)
(*   dict           a record                                               *)
(***************************************************************************)
EXTENDS Integers, Sequences, FiniteSets, TLC

VARIABLES
    pc,         \* where main (or the helper under call) stands
    now,        \* the value time.time() returns
    root,       \* the directory argument as found on disk: [kind, listing]
    args,       \* the argparse namespace
    scan,       \* how scan_projects left: [exit, built, ret]
    projects,   \* main's local `projects` after filter, sort and limit
    out,        \* the messages printed, in order
    blocks,     \* the project blocks printed, in order
    stats,      \* the statistics printed: Optional
    call        \* a direct call of one helper: [fn, arg, ret]

vars == <<pc, now, root, args, scan, projects, out, blocks, stats, call>>

(***************************************************************************)
(* Bounds of the model.                                                    *)
(***************************************************************************)
MaxElapsed == 172805    \* largest now - timestamp tried (just over 2 days)
MaxEntries == 3         \* longest directory listing of the root (scanner)
MaxProjects == 2        \* longest directory listing of the root (report)
MaxValueLen == 6        \* longest text after the key on a manifest line
MaxLimit == 2           \* largest --limit tried

(***************************************************************************)
(* Optional values and small helpers.                                      *)
(***************************************************************************)
None == <<>>
Some(v) == <<v>>
IsNone(o) == o = <<>>
Get(o) == o[1]

Min(a, b) == IF a < b THEN a ELSE b
Max(a, b) == IF a > b THEN a ELSE b

SeqsUpTo(S, n) == UNION {[1..k -> S] : k \in 0..n}

Take(s, n) == SubSeq(s, 1, Min(n, Len(s)))

RECURSIVE SelectSeqBy(_, _)
\* [x for x in s if keep[x]] with keep a set of the elements to keep
SelectSeqBy(s, keep) ==
    IF s = <<>> THEN <<>>
    ELSE (IF Head(s) \in keep THEN <<Head(s)>> ELSE <<>>) \o SelectSeqBy(Tail(s), keep)

Range(s) == {s[i] : i \in 1..Len(s)}

(***************************************************************************)
(* str: characters, code points, comparison, lower, strip, split, `in`.    *)
(***************************************************************************)
\* The printable ASCII characters in code-point order, from 32 (space); the
\* grave accent (96) is spelled out.
AsciiTable ==
    << " ", "!", "\"", "#", "$", "%", "&", "'", "(", ")", "*", "+", ",", "-", ".", "/",
       "0", "1", "2", "3", "4", "5", "6", "7", "8", "9", ":", ";", "<", "=", ">", "?",
       "@", "A", "B", "C", "D", "E", "F", "G", "H", "I", "J", "K", "L", "M", "N", "O",
       "P", "Q", "R", "S", "T", "U", "V", "W", "X", "Y", "Z", "[", "\\", "]", "^", "_",
       "grave", "a", "b", "c", "d", "e", "f", "g", "h", "i", "j", "k", "l", "m", "n", "o",
       "p", "q", "r", "s", "t", "u", "v", "w", "x", "y", "z", "{", "|", "}", "~" >>

Chars == Range(AsciiTable) \cup {"\n"}

\* ord(c)
Ord == [c \in Chars |->
          IF c = "\n" THEN 10
          ELSE 31 + (CHOOSE i \in 1..Len(AsciiTable) : AsciiTable[i] = c)]

\* c.lower() for one character
LowerChar == [c \in Chars |->
                IF Ord[c] >= 65 /\ Ord[c] <= 90 THEN AsciiTable[Ord[c] + 32 - 31] ELSE c]

\* s.lower()
Lower(s) == [i \in 1..Len(s) |-> LowerChar[s[i]]]

\* a < b on str: the first differing code point decides, a proper prefix is smaller
StrLess(a, b) ==
    \E i \in 1..(Min(Len(a), Len(b)) + 1) :
        /\ \A j \in 1..(i - 1) : a[j] = b[j]
        /\ \/ i = Len(a) + 1 /\ i <= Len(b)
           \/ i <= Len(a) /\ i <= Len(b) /\ Ord[a[i]] < Ord[b[i]]

\* the characters str.strip() removes, among those modelled
Whitespace == {" ", "\n"}

\* the double quote character
DQ == "\""

RECURSIVE LStrip(_, _)
LStrip(s, cs) == IF s # <<>> /\ Head(s) \in cs THEN LStrip(Tail(s), cs) ELSE s

RECURSIVE RStrip(_, _)
RStrip(s, cs) ==
    IF s # <<>> /\ s[Len(s)] \in cs THEN RStrip(SubSeq(s, 1, Len(s) - 1), cs) ELSE s

\* s.strip() with cs = Whitespace; s.strip of the double quote with cs = {DQ}
Strip(s, cs) == RStrip(LStrip(s, cs), cs)

\* the positions of character c in s
Positions(s, c) == {i \in 1..Len(s) : s[i] = c}

\* s.split(c)[-1]: the text after the last c, the whole of s when c is absent
SplitLast(s, c) ==
    IF Positions(s, c) = {} THEN s
    ELSE LET p == CHOOSE i \in Positions(s, c) : \A j \in Positions(s, c) : j <= i
         IN  SubSeq(s, p + 1, Len(s))

\* sub in s
Contains(s, sub) ==
    \E i \in 0..(Len(s) - Len(sub)) : SubSeq(s, i + 1, i + Len(sub)) = sub

(***************************************************************************)
(* format_time_ago, with time.time() passed as `t`.                        *)
(***************************************************************************)
\* the f-string of lines 36, 39 and 42: the count, the unit, an s unless the
\* count is 1, and the word ago
Ago(n, unit) == ToString(n) \o " " \o unit \o (IF n # 1 THEN "s" ELSE "") \o " ago"

format_time_ago_le(timestamp, t) ==
    IF timestamp = 0 THEN "Never modified"
    ELSE LET diff == t - timestamp IN
         IF diff <= 60 THEN "Just now"
         ELSE IF diff <= 3600 THEN Ago(diff \div 60, "minute")
         ELSE IF diff <= 86400 THEN Ago(diff \div 3600, "hour")
         ELSE Ago(diff \div 86400, "day")

format_time_ago(timestamp, t) ==
    IF timestamp = 0 THEN "Never modified"
    ELSE LET diff == t - timestamp IN
         IF diff < 60 THEN "Just now"
         ELSE IF diff < 3600 THEN Ago(diff \div 60, "minute")
         ELSE IF diff < 86400 THEN Ago(diff \div 3600, "hour")
         ELSE Ago(diff \div 86400, "day")

(***************************************************************************)
(* What is on disk.                                                        *)
(*                                                                         *)
(* A directory entry of the root is [name, kind, enterable, mtimes, git,   *)
(* pyproject, package_json, present]: kind "dir" or "file"; enterable is   *)
(* search permission on it; mtimes are the files of its subtree, each the  *)
(* Optional modification time getmtime gives (None: OSError); git is how   *)
(* the git command ends there ("ok", "nonzero", "absent": no executable);  *)
(* present is the set of lock files and marker directories in it.          *)
(*                                                                         *)
(* A file is [state, data]: state "absent", "unreadable" (it exists and    *)
(* open raises), "invalid" (package.json only: json.load raises) or "ok".  *)
(* The data of pyproject.toml is its lines, each a str without its line    *)
(* end; the data of package.json is the parsed JSON value.                 *)
(*                                                                         *)
(* A JSON value is [kind, members, text]: an "object" with its keys, an    *)
(* "array" with its elements, a "string" with its text, or "null" /        *)
(* "number".  The top-level manifest value carries in addition the values  *)
(* found under name, version, type, dependencies and devDependencies, each *)
(* Optional (None when the key is absent).                                 *)
(***************************************************************************)
JObject(keys) == [kind |-> "object", members |-> keys, text |-> <<>>]
JArray(items) == [kind |-> "array", members |-> items, text |-> <<>>]
JString(t) == [kind |-> "string", members |-> {}, text |-> t]
JNull == [kind |-> "null", members |-> {}, text |-> <<>>]

Manifest(name, version, type, deps, dev) ==
    [kind |-> "object", name |-> name, version |-> version, type |-> type,
     dependencies |-> deps, devDependencies |-> dev]

\* valid JSON whose top level is not an object, such as [1, 2]
NonObject(kind) ==
    [kind |-> kind, name |-> None, version |-> None, type |-> None,
     dependencies |-> None, devDependencies |-> None]

NoData == <<>>
Absent == [state |-> "absent", data |-> NoData]
Unreadable == [state |-> "unreadable", data |-> NoData]
Invalid == [state |-> "invalid", data |-> NoData]
FileOf(data) == [state |-> "ok", data |-> data]

\* the literals the code searches for
RequiresPython == <<"r", "e", "q", "u", "i", "r", "e", "s", "-", "p", "y", "t", "h", "o", "n">>
ToolPoetry == <<"t", "o", "o", "l", ".", "p", "o", "e", "t", "r", "y">>
Typescript == <<"t", "y", "p", "e", "s", "c", "r", "i", "p", "t">>

\* os.path.exists(os.path.join(path, file)): stat fails inside a directory
\* that cannot be entered, and exists then answers False
Exists(d, file) == d.enterable /\ file.state # "absent"

\* os.path.exists(os.path.join(path, entry)) for a lock file or a marker
\* directory, of which only the presence matters
ExistsEntry(d, entry) == d.enterable /\ entry \in d.present

(***************************************************************************)
(* get_last_modified: os.walk skips what it cannot list; getmtime raising  *)
(* OSError (None in d.mtimes) skips the file.                              *)
(***************************************************************************)
RECURSIVE LatestOf(_, _)
LatestOf(mtimes, latest) ==
    IF mtimes = <<>> THEN latest
    ELSE LatestOf(Tail(mtimes),
                  IF IsNone(Head(mtimes)) THEN latest ELSE Max(latest, Get(Head(mtimes))))

get_last_modified(d) == IF d.enterable THEN LatestOf(d.mtimes, 0) ELSE 0

(***************************************************************************)
(* is_git_repo: subprocess.run(..., cwd=path).  The child changes to cwd   *)
(* before it executes git, so a directory that cannot be entered raises    *)
(* PermissionError, which the function does not catch ("raise").           *)
(***************************************************************************)
is_git_repo(d) ==
    IF ~d.enterable THEN "raise PermissionError"
    ELSE IF d.git = "absent" THEN "False"
    ELSE IF d.git = "ok" THEN "True" ELSE "False"

(***************************************************************************)
(* get_python_version.                                                     *)
(***************************************************************************)
\* iterating the open file yields each line with its line end
ReadLines(file) == [i \in 1..Len(file.data) |-> file.data[i] \o <<"\n">>]

\* line.split("=")[-1].strip().strip of the double quote
ValueOf(line) == Strip(Strip(SplitLast(line, "="), Whitespace), {DQ})

RECURSIVE FirstMatch(_)
\* the for loop of lines 61-63: the first line holding the key decides
FirstMatch(lines) ==
    IF lines = <<>> THEN None
    ELSE IF Contains(Head(lines), RequiresPython) THEN Some(ValueOf(Head(lines)))
    ELSE FirstMatch(Tail(lines))

get_python_version(d) ==
    IF Exists(d, d.pyproject)
    THEN IF d.pyproject.state = "ok" THEN FirstMatch(ReadLines(d.pyproject)) ELSE None
    ELSE None

(***************************************************************************)
(* check_project_environment.                                              *)
(***************************************************************************)
\* f.read(): the lines joined, each with its line end
RECURSIVE ReadAll(_)
ReadAll(lines) == IF lines = <<>> THEN <<>> ELSE Head(lines) \o ReadAll(Tail(lines))

\* lines 87-93
IsPoetry(d) ==
    /\ Exists(d, d.pyproject)
    /\ d.pyproject.state = "ok"
    /\ Contains(ReadAll(ReadLines(d.pyproject)), ToolPoetry)

\* package_data.get(key, {}) with v the Optional value under the key
GetOrEmptyDict(v) == IF IsNone(v) THEN JObject({}) ELSE Get(v)

\* the test for typescript in v raises TypeError when v is no container
InRaises(v) == v.kind \notin {"object", "array", "string"}

\* the test for typescript in v: a key of a dict, an element of a list, a
\* substring of a str
InValue(v) ==
    IF v.kind = "string" THEN Contains(v.text, Typescript)
    ELSE "typescript" \in v.members

\* lines 104-105 raise: the left operand of `or`, or the right one when the
\* left one is false
TypescriptRaises(data) ==
    LET deps == GetOrEmptyDict(data.dependencies)
        dev == GetOrEmptyDict(data.devDependencies)
    IN  \/ InRaises(deps)
        \/ ~InValue(deps) /\ InRaises(dev)

HasTypescript(data) ==
    LET deps == GetOrEmptyDict(data.dependencies)
        dev == GetOrEmptyDict(data.devDependencies)
    IN  InValue(deps) \/ InValue(dev)

\* package_data.get(key, default)
GetOr(v, default) == IF IsNone(v) THEN default ELSE Get(v)

NodeInfoOf_no_default(data) ==
    [name |-> GetOr(data.name, ""),
     version |-> GetOr(data.version, ""),
     type |-> GetOr(data.type, ""),
     has_typescript |-> HasTypescript(data)]

\* the dict of lines 100-106
NodeInfoOf(data) ==
    [name |-> GetOr(data.name, ""),
     version |-> GetOr(data.version, ""),
     type |-> GetOr(data.type, "commonjs"),
     has_typescript |-> HasTypescript(data)]

\* lines 96-108: {} (None) unless the file opens, parses, is a dict (else .get
\* raises AttributeError) and the membership tests do not raise
NodePackageInfo(d) ==
    IF ~Exists(d, d.package_json) THEN None
    ELSE IF d.package_json.state # "ok" THEN None
    ELSE IF d.package_json.data.kind # "object" THEN None
    ELSE IF TypescriptRaises(d.package_json.data) THEN None
    ELSE Some(NodeInfoOf(d.package_json.data))

check_project_environment(d) ==
    [has_pyproject |-> Exists(d, d.pyproject),
     has_uv_lock |-> ExistsEntry(d, "uv.lock"),
     has_poetry_lock |-> ExistsEntry(d, "poetry.lock"),
     has_venv |-> ExistsEntry(d, ".venv"),
     is_poetry |-> IsPoetry(d),
     has_package_json |-> Exists(d, d.package_json),
     has_node_modules |-> ExistsEntry(d, "node_modules"),
     has_package_lock |-> ExistsEntry(d, "package-lock.json"),
     has_yarn_lock |-> ExistsEntry(d, "yarn.lock"),
     has_pnpm_lock |-> ExistsEntry(d, "pnpm-lock.yaml"),
     node_info |-> NodePackageInfo(d)]

(***************************************************************************)
(* determine_project_type.                                                 *)
(***************************************************************************)
\* node_info.get of has_typescript: None, which is false, on the empty dict
NodeHasTypescript(env_info) ==
    IF IsNone(env_info.node_info) THEN FALSE ELSE Get(env_info.node_info).has_typescript

PythonTypes(env_info) ==
    IF env_info.has_pyproject \/ env_info.has_venv
    THEN IF env_info.has_uv_lock THEN <<"UV Python">>
         ELSE IF env_info.is_poetry THEN <<"Poetry Python">>
         ELSE <<"Python">>
    ELSE <<>>

NodeTypes_pnpm_first(env_info) ==
    IF env_info.has_package_json
    THEN LET node_type == IF NodeHasTypescript(env_info) THEN "TypeScript" ELSE "JavaScript"
             package_manager == IF env_info.has_pnpm_lock THEN "pnpm"
                                ELSE IF env_info.has_yarn_lock THEN "yarn"
                                ELSE "npm"
         IN  <<node_type \o " (" \o package_manager \o ")">>
    ELSE <<>>

NodeTypes(env_info) ==
    IF env_info.has_package_json
    THEN LET node_type == IF NodeHasTypescript(env_info) THEN "TypeScript" ELSE "JavaScript"
             package_manager == IF env_info.has_yarn_lock THEN "yarn"
                                ELSE IF env_info.has_pnpm_lock THEN "pnpm"
                                ELSE "npm"
         IN  <<node_type \o " (" \o package_manager \o ")">>
    ELSE <<>>

determine_project_type(env_info) ==
    LET types == PythonTypes(env_info) \o NodeTypes(env_info)
    IN  IF types # <<>> THEN types ELSE <<"Unknown">>

(***************************************************************************)
(* sorted and list.sort: a stable sort.  Before(a, b) is key(a) < key(b),  *)
(* or key(a) > key(b) under reverse=True, which keeps equal keys in their  *)
(* original order too.                                                     *)
(***************************************************************************)
\* s rearranged so that element i comes at position pos[i]
Permute(s, pos) == [p \in 1..Len(s) |-> s[CHOOSE i \in 1..Len(s) : pos[i] = p]]

\* keys[i] is the key of s[i], computed once for each element as sorted does;
\* before is the set of pairs <<k, l>> of keys with k sorting before l.  An
\* element goes after those that sort before it and after the earlier ones that
\* compare equal to it.
StableSort(s, keys, before) ==
    Permute(s, [i \in 1..Len(s) |->
                  1 + Cardinality({j \in 1..Len(s) :
                         \/ <<keys[j], keys[i]>> \in before
                         \/ <<keys[i], keys[j]>> \notin before /\ j < i})])

\* the pairs of keys in ascending order of str, of tuples of two str, of numbers
StrAscending(keys) == {kl \in Range(keys) \X Range(keys) : StrLess(kl[1], kl[2])}
PairAscending(keys) ==
    {kl \in Range(keys) \X Range(keys) :
        \/ StrLess(kl[1][1], kl[2][1])
        \/ kl[1][1] = kl[2][1] /\ StrLess(kl[1][2], kl[2][2])}
NumAscending(keys) == {kl \in Range(keys) \X Range(keys) : kl[1] < kl[2]}
\* reverse=True
NumDescending(keys) == {kl \in Range(keys) \X Range(keys) : kl[1] > kl[2]}

Reverse(s) == [i \in 1..Len(s) |-> s[Len(s) + 1 - i]]

(***************************************************************************)
(* scan_projects.                                                          *)
(***************************************************************************)
\* os.path.join(directory, item), with the directory argument written "."
JoinPath(item) == <<".", "/">> \o item

\* lines 161-174, for a directory on which is_git_repo does not raise
ProjectRecord(d, t) ==
    [name |-> d.name,
     path |-> JoinPath(d.name),
     last_modified |-> get_last_modified(d),
     last_modified_fmt |-> format_time_ago(get_last_modified(d), t),
     is_git |-> is_git_repo(d) = "True",
     python_version |-> get_python_version(d),
     environment_info |-> check_project_environment(d)]

RECURSIVE ScanLoop(_, _, _)
\* the for loop of lines 158-174: [built, raised], raised when is_git_repo
\* let PermissionError through and the loop was left
ScanLoop(items, built, t) ==
    IF items = <<>> THEN [built |-> built, raised |-> FALSE]
    ELSE LET d == Head(items) IN
         IF d.kind # "dir" THEN ScanLoop(Tail(items), built, t)
         ELSE IF is_git_repo(d) = "raise PermissionError"
              THEN [built |-> built, raised |-> TRUE]
              ELSE ScanLoop(Tail(items), Append(built, ProjectRecord(d, t)), t)

\* [key(x) for x in ps] with key = last_modified
LastModifiedKeys(ps) == [i \in 1..Len(ps) |-> ps[i].last_modified]

SortNewestFirst_reversed(ps) ==
    Reverse(StableSort(ps, LastModifiedKeys(ps), NumAscending(LastModifiedKeys(ps))))

\* line 177: sorted(projects, key=last_modified, reverse=True)
SortNewestFirst(ps) ==
    StableSort(ps, LastModifiedKeys(ps), NumDescending(LastModifiedKeys(ps)))

\* scan_projects(directory) on an existing root: [exit, built, ret].  exit is
\* "return" (line 177), "PermissionError" (caught, lines 179-181: from
\* os.listdir on the root, or from is_git_repo on a subdirectory) or
\* "NotADirectoryError" (os.listdir on a root that is no directory: uncaught).
scan_projects(r, t) ==
    IF r.kind = "file"
    THEN [exit |-> "NotADirectoryError", built |-> <<>>, ret |-> <<>>]
    ELSE IF r.kind = "unlistable"
    THEN [exit |-> "PermissionError", built |-> <<>>, ret |-> <<>>]
    ELSE LET loop == ScanLoop(r.listing, <<>>, t) IN
         IF loop.raised
         THEN [exit |-> "PermissionError", built |-> loop.built, ret |-> <<>>]
         ELSE [exit |-> "return", built |-> loop.built, ret |-> SortNewestFirst(loop.built)]

(***************************************************************************)
(* main: filters, sort, limit.                                             *)
(***************************************************************************)
\* lines 257-266: each filter that is switched on keeps the records that pass
ApplyFilters(ps, a) ==
    LET f1 == IF a.uv_only
              THEN SelectSeqBy(ps, {p \in Range(ps) : p.environment_info.has_uv_lock})
              ELSE ps
        f2 == IF a.poetry_only
              THEN SelectSeqBy(f1, {p \in Range(f1) : p.environment_info.is_poetry})
              ELSE f1
        f3 == IF a.node_only
              THEN SelectSeqBy(f2, {p \in Range(f2) : p.environment_info.has_package_json})
              ELSE f2
        f4 == IF a.typescript_only
              THEN SelectSeqBy(f3, {p \in Range(f3) : NodeHasTypescript(p.environment_info)})
              ELSE f3
        f5 == IF a.git_only THEN SelectSeqBy(f4, {p \in Range(f4) : p.is_git}) ELSE f4
    IN  f5

\* python_version or the empty str: None gives the empty str
VersionOrEmpty(p) == IF IsNone(p.python_version) THEN <<>> ELSE Get(p.python_version)

\* the characters of each label
LabelChars(label) ==
    CASE label = "UV Python" -> <<"U", "V", " ", "P", "y", "t", "h", "o", "n">>
      [] label = "Poetry Python" -> <<"P", "o", "e", "t", "r", "y", " ", "P", "y", "t", "h", "o", "n">>
      [] label = "Python" -> <<"P", "y", "t", "h", "o", "n">>
      [] label = "TypeScript (npm)" -> <<"T", "y", "p", "e", "S", "c", "r", "i", "p", "t", " ", "(", "n", "p", "m", ")">>
      [] label = "TypeScript (yarn)" -> <<"T", "y", "p", "e", "S", "c", "r", "i", "p", "t", " ", "(", "y", "a", "r", "n", ")">>
      [] label = "TypeScript (pnpm)" -> <<"T", "y", "p", "e", "S", "c", "r", "i", "p", "t", " ", "(", "p", "n", "p", "m", ")">>
      [] label = "JavaScript (npm)" -> <<"J", "a", "v", "a", "S", "c", "r", "i", "p", "t", " ", "(", "n", "p", "m", ")">>
      [] label = "JavaScript (yarn)" -> <<"J", "a", "v", "a", "S", "c", "r", "i", "p", "t", " ", "(", "y", "a", "r", "n", ")">>
      [] label = "JavaScript (pnpm)" -> <<"J", "a", "v", "a", "S", "c", "r", "i", "p", "t", " ", "(", "p", "n", "p", "m", ")">>
      [] label = "Unknown" -> <<"U", "n", "k", "n", "o", "w", "n">>

RECURSIVE JoinRepr(_)
\* the elements of a list of str, each in single quotes, joined by ", "
JoinRepr(types) ==
    IF types = <<>> THEN <<>>
    ELSE <<"'">> \o LabelChars(Head(types)) \o <<"'">>
           \o (IF Tail(types) = <<>> THEN <<>> ELSE <<",", " ">> \o JoinRepr(Tail(types)))

\* str(determine_project_type(env_info)): the repr of the list
TypeKey(p) == <<"[">> \o JoinRepr(determine_project_type(p.environment_info)) \o <<"]">>

\* the keys of line 270: the lower-cased names
NameKeys(ps) == [i \in 1..Len(ps) |-> Lower(ps[i].name)]

\* the keys of line 272: the tuple of the version, or the empty str, and the
\* lower-cased name
PythonKeys(ps) == [i \in 1..Len(ps) |-> <<VersionOrEmpty(ps[i]), Lower(ps[i].name)>>]

\* the keys of line 274
TypeKeys(ps) == [i \in 1..Len(ps) |-> TypeKey(ps[i])]

SortByPython_name_only(ps) == StableSort(ps, NameKeys(ps), StrAscending(NameKeys(ps)))

\* line 270
SortByName(ps) == StableSort(ps, NameKeys(ps), StrAscending(NameKeys(ps)))

\* line 272
SortByPython(ps) == StableSort(ps, PythonKeys(ps), PairAscending(PythonKeys(ps)))

\* line 274
SortByType(ps) == StableSort(ps, TypeKeys(ps), StrAscending(TypeKeys(ps)))

\* lines 269-274
ApplySort(ps, a) ==
    IF a.sort = "name" THEN SortByName(ps)
    ELSE IF a.sort = "python" THEN SortByPython(ps)
    ELSE IF a.sort = "type" THEN SortByType(ps)
    ELSE ps

\* ps[:n]: a negative n counts from the end
Slice(ps, n) == IF n >= 0 THEN Take(ps, n) ELSE Take(ps, Max(Len(ps) + n, 0))

\* lines 276-277: `if args.limit:` is false for None and for 0
ApplyLimit(ps, a) ==
    IF ~IsNone(a.limit) /\ Get(a.limit) # 0 THEN Slice(ps, Get(a.limit)) ELSE ps

(***************************************************************************)
(* main: the report.                                                       *)
(***************************************************************************)
\* lines 287-316: one block
Block(p) ==
    LET env == p.environment_info
        env_status ==
            (IF env.has_pyproject THEN <<"pyproject.toml">> ELSE <<>>)
              \o (IF env.has_uv_lock THEN <<"uv.lock">> ELSE <<>>)
              \o (IF env.has_venv THEN <<".venv">> ELSE <<>>)
              \o (IF ~IsNone(env.node_info) /\ Get(env.node_info).type = "module"
                  THEN <<"ESM">> ELSE <<>>)
              \o (IF NodeHasTypescript(env) THEN <<"TypeScript">> ELSE <<>>)
    IN  [name |-> p.name,
         git_status |-> IF p.is_git THEN "[Git]" ELSE "[No Git]",
         types |-> determine_project_type(env),
         env_status |-> IF env_status # <<>> THEN env_status ELSE <<"No Package Manager">>,
         python_ver |-> IF VersionOrEmpty(p) # <<>> THEN p.python_version ELSE None,
         last_modified |-> p.last_modified_fmt,
         path |-> p.path]

\* sum(1 for p in ps if p in passing)
Count(ps, passing) == Cardinality({i \in 1..Len(ps) : ps[i] \in passing})

\* line 188: the Counter of the versions that are neither None nor empty
VersionCounter(ps) ==
    LET versions == {VersionOrEmpty(ps[i]) : i \in 1..Len(ps)} \ {<<>>}
    IN  [v \in versions |-> Count(ps, {p \in Range(ps) : VersionOrEmpty(p) = v})]

get_project_statistics(ps) ==
    LET env(p) == p.environment_info
        all == Range(ps)
    IN  [total |-> Len(ps),
         git_repos |-> Count(ps, {p \in all : p.is_git}),
         python_versions |-> VersionCounter(ps),
         uv_managed |-> Count(ps, {p \in all : env(p).has_uv_lock}),
         poetry_managed |-> Count(ps, {p \in all : env(p).is_poetry}),
         node_projects |-> Count(ps, {p \in all : env(p).has_package_json}),
         typescript_projects |-> Count(ps, {p \in all : NodeHasTypescript(env(p))}),
         npm |-> Count(ps, {p \in all : env(p).has_package_lock}),
         yarn |-> Count(ps, {p \in all : env(p).has_yarn_lock}),
         pnpm |-> Count(ps, {p \in all : env(p).has_pnpm_lock})]

(***************************************************************************)
(* Values of the variables a specification does not use.                   *)
(***************************************************************************)
NoRoot == [kind |-> "none", listing |-> <<>>]
NoArgs == [none |-> TRUE]
NoScan == [exit |-> "none", built |-> <<>>, ret |-> <<>>]
NoCall == [fn |-> "none", arg |-> <<>>, ret |-> None]

PipelineIdle ==
    /\ root = NoRoot
    /\ args = NoArgs
    /\ scan = NoScan
    /\ projects = <<>>
    /\ out = <<>>
    /\ blocks = <<>>
    /\ stats = None

(***************************************************************************)
(* SpecTime: format_time_ago called on a timestamp at a current time.      *)
(***************************************************************************)
\* The current times tried: one small enough for timestamp 0 to be recent.
Clocks == {30, MaxElapsed + 1000}

InitTime ==
    /\ PipelineIdle
    /\ pc = "call"
    /\ now \in Clocks
    /\ \E timestamp \in 0..(now + 2) :
          /\ now - timestamp <= MaxElapsed
          /\ call = [fn |-> "format_time_ago", arg |-> timestamp, ret |-> None]

CallFormatTimeAgo ==
    /\ pc = "call"
    /\ call.fn = "format_time_ago"
    /\ call' = [call EXCEPT !.ret = Some(format_time_ago(call.arg, now))]
    /\ pc' = "returned"
    /\ UNCHANGED <<now, root, args, scan, projects, out, blocks, stats>>

NextTime == CallFormatTimeAgo

SpecTime == InitTime /\ [][NextTime]_vars

\* C10: timestamp 0 gives "Never modified"; otherwise the elapsed time picks the
\* bucket (< 60 "Just now", < 3600 whole minutes, < 86400 whole hours, else whole
\* days), the count is the floor of the quotient, and the unit is singular exactly
\* when the count is 1.
FormatTimeAgoBuckets ==
    (pc = "returned" /\ call.fn = "format_time_ago") =>
        LET timestamp == call.arg
            elapsed == now - timestamp
            phrase == Get(call.ret)
            Counted(unit, size) ==
                \E n \in 1..(elapsed \div size) :
                    /\ n * size <= elapsed
                    /\ elapsed < (n + 1) * size
                    /\ phrase = ToString(n) \o " " \o unit
                                  \o (IF n = 1 THEN "" ELSE "s") \o " ago"
        IN  /\ timestamp = 0 => phrase = "Never modified"
            /\ (timestamp # 0 /\ elapsed < 60) => phrase = "Just now"
            /\ (timestamp # 0 /\ 60 <= elapsed /\ elapsed < 3600) => Counted("minute", 60)
            /\ (timestamp # 0 /\ 3600 <= elapsed /\ elapsed < 86400) => Counted("hour", 3600)
            /\ (timestamp # 0 /\ 86400 <= elapsed) => Counted("day", 86400)
            /\ (timestamp # 0 /\ elapsed = 59) => phrase = "Just now"
            /\ (timestamp # 0 /\ elapsed = 60) => phrase = "1 minute ago"
            /\ (timestamp # 0 /\ elapsed = 3599) => phrase = "59 minutes ago"
            /\ (timestamp # 0 /\ elapsed = 3600) => phrase = "1 hour ago"

\* A call at the 3600 second boundary has returned "1 hour ago".
FormatTimeAgoWitness ==
    /\ pc = "returned"
    /\ call.fn = "format_time_ago"
    /\ call.arg # 0
    /\ now - call.arg = 3600
    /\ call.ret = Some("1 hour ago")


(***************************************************************************)
(* Directories to call the helpers on.                                     *)
(***************************************************************************)
Markers ==
    {"uv.lock", "poetry.lock", ".venv", "node_modules", "package-lock.json",
     "yarn.lock", "pnpm-lock.yaml"}

DirOf(name, pyproject, package_json, present) ==
    [name |-> name, kind |-> "dir", enterable |-> TRUE, mtimes |-> <<>>,
     git |-> "nonzero", pyproject |-> pyproject, package_json |-> package_json,
     present |-> present]

(***************************************************************************)
(* SpecType: determine_project_type on every combination of the flags.     *)
(***************************************************************************)
NodeInfos ==
    {None} \cup {Some([name |-> "", version |-> "", type |-> "commonjs",
                       has_typescript |-> b]) : b \in BOOLEAN}

EnvInfos ==
    [has_pyproject : BOOLEAN, has_uv_lock : BOOLEAN, has_poetry_lock : {FALSE},
     has_venv : BOOLEAN, is_poetry : BOOLEAN, has_package_json : BOOLEAN,
     has_node_modules : {FALSE}, has_package_lock : {FALSE},
     has_yarn_lock : BOOLEAN, has_pnpm_lock : BOOLEAN, node_info : NodeInfos]

InitType ==
    /\ PipelineIdle
    /\ pc = "call"
    /\ now = 0
    /\ \E env_info \in EnvInfos :
          call = [fn |-> "determine_project_type", arg |-> env_info, ret |-> None]

CallDetermineProjectType ==
    /\ pc = "call"
    /\ call.fn = "determine_project_type"
    /\ call' = [call EXCEPT !.ret = Some(determine_project_type(call.arg))]
    /\ pc' = "returned"
    /\ UNCHANGED <<now, root, args, scan, projects, out, blocks, stats>>

NextType == CallDetermineProjectType

SpecType == InitType /\ [][NextType]_vars

\* C1: the list holds one Python label when has_pyproject or has_venv (UV before
\* Poetry before plain), then one Node label when has_package_json (TypeScript or
\* JavaScript, yarn before pnpm before npm), and is the single label Unknown
\* exactly when neither holds; so it is never empty and never longer than two.
ClassifierTable ==
    (pc = "returned" /\ call.fn = "determine_project_type") =>
        LET e == call.arg
            types == Get(call.ret)
            python == e.has_pyproject \/ e.has_venv
            node == e.has_package_json
            ts == ~IsNone(e.node_info) /\ Get(e.node_info).has_typescript
        IN  /\ Len(types) \in {1, 2}
            /\ Len(types) = 2 <=> (python /\ node)
            /\ types = <<"Unknown">> <=> (~python /\ ~node)
            /\ (python /\ e.has_uv_lock) => types[1] = "UV Python"
            /\ (python /\ ~e.has_uv_lock /\ e.is_poetry) => types[1] = "Poetry Python"
            /\ (python /\ ~e.has_uv_lock /\ ~e.is_poetry) => types[1] = "Python"
            /\ (node /\ ts /\ e.has_yarn_lock) => types[Len(types)] = "TypeScript (yarn)"
            /\ (node /\ ts /\ ~e.has_yarn_lock /\ e.has_pnpm_lock)
                  => types[Len(types)] = "TypeScript (pnpm)"
            /\ (node /\ ts /\ ~e.has_yarn_lock /\ ~e.has_pnpm_lock)
                  => types[Len(types)] = "TypeScript (npm)"
            /\ (node /\ ~ts /\ e.has_yarn_lock) => types[Len(types)] = "JavaScript (yarn)"
            /\ (node /\ ~ts /\ ~e.has_yarn_lock /\ e.has_pnpm_lock)
                  => types[Len(types)] = "JavaScript (pnpm)"
            /\ (node /\ ~ts /\ ~e.has_yarn_lock /\ ~e.has_pnpm_lock)
                  => types[Len(types)] = "JavaScript (npm)"

\* A project with pyproject.toml, tool.poetry, package.json, typescript and both
\* the yarn and the pnpm lock has been classified.
ClassifierWitness ==
    /\ pc = "returned"
    /\ call.fn = "determine_project_type"
    /\ call.arg.has_pyproject /\ ~call.arg.has_uv_lock /\ call.arg.is_poetry
    /\ call.arg.has_package_json /\ call.arg.has_yarn_lock /\ call.arg.has_pnpm_lock
    /\ call.ret = Some(<<"Poetry Python", "TypeScript (yarn)">>)

(***************************************************************************)
(* SpecVersion: get_python_version on a directory whose pyproject.toml is  *)
(* absent, unreadable, or holds up to two lines.                           *)
(***************************************************************************)
ValueAlphabet == {"=", " ", DQ, ">", "3"}

\* lines holding the key, followed by up to n characters
KeyLines(n) ==
    {p \o RequiresPython \o v : p \in {<<>>, <<"#">>}, v \in SeqsUpTo(ValueAlphabet, n)}

\* lines without the key
OtherLines == {<<"[", "p", "r", "o", "j", "e", "c", "t", "]">>, <<"n", "a", "m", "e", " ", "=", " ", "x">>}

\* a second line holding the key, after a first one that holds it too
SecondKeyLines == {RequiresPython \o <<"=", "3">>, RequiresPython}

\* the files tried around a line l: l alone, l after a line without the key,
\* l before a second line that holds the key too
FilesAround(l) ==
    {<<l>>} \cup {<<o, l>> : o \in OtherLines} \cup {<<l, k>> : k \in SecondKeyLines}

InitVersion ==
    /\ PipelineIdle
    /\ pc = "call"
    /\ now = 0
    /\ \E l \in KeyLines(MaxValueLen) \cup OtherLines :
          \E f \in {Absent, Unreadable, FileOf(<<>>)} \cup {FileOf(c) : c \in FilesAround(l)} :
              call = [fn |-> "get_python_version", arg |-> DirOf(<<"p">>, f, Absent, {}),
                      ret |-> None]

CallGetPythonVersion ==
    /\ pc = "call"
    /\ call.fn = "get_python_version"
    /\ call' = [call EXCEPT !.ret = Some(get_python_version(call.arg))]
    /\ pc' = "returned"
    /\ UNCHANGED <<now, root, args, scan, projects, out, blocks, stats>>

NextVersion == CallGetPythonVersion

SpecVersion == InitVersion /\ [][NextVersion]_vars

\* the text after the first c of s (the whole of s when it holds no c)
AfterFirst(s, c) ==
    IF Positions(s, c) = {} THEN s
    ELSE LET p == CHOOSE i \in Positions(s, c) : \A j \in Positions(s, c) : i <= j
         IN  SubSeq(s, p + 1, Len(s))

\* C6: the result is, for the first line holding requires-python, the text after
\* the FIRST = of that line with surrounding whitespace and double quotes removed,
\* whatever the value; it is None when the file is absent, unreadable or has no
\* such line.
VersionIsTextAfterFirstEquals ==
    (pc = "returned" /\ call.fn = "get_python_version") =>
        LET f == call.arg.pyproject
            result == Get(call.ret)
            hits == IF f.state = "ok"
                    THEN {i \in 1..Len(f.data) : Contains(f.data[i], RequiresPython)}
                    ELSE {}
        IN  IF hits = {} THEN result = None
            ELSE LET first == CHOOSE i \in hits : \A j \in hits : i <= j
                 IN  result = Some(Strip(Strip(AfterFirst(f.data[first], "="), Whitespace),
                                         {DQ}))

(***************************************************************************)
(* SpecEnv: check_project_environment on a directory.                      *)
(***************************************************************************)
DepValues ==
    {None, Some(JObject({})), Some(JObject({"typescript"})), Some(JObject({"react"})),
     Some(JArray({"typescript"})), Some(JString(<<"t", "y", "p", "e", "s", "c", "r", "i", "p", "t", "-", "e", "s", "l", "i", "n", "t">>)), Some(JNull)}

PackageJsonFiles ==
    {Absent, Unreadable, Invalid}
      \cup {FileOf(NonObject(k)) : k \in {"array", "string", "null"}}
      \cup {FileOf(Manifest(n, n, t, deps, dev)) :
              n \in {None, Some("x")}, t \in {None, Some("module"), Some("commonjs")},
              deps \in DepValues, dev \in DepValues}

PoetryPyprojects ==
    {Absent, Unreadable, FileOf(<<<<"[", "t", "o", "o", "l", ".", "p", "o", "e", "t", "r", "y", "]">>>>), FileOf(<<<<"[", "p", "r", "o", "j", "e", "c", "t", "]">>, <<"[", "t", "o", "o", "l", ".", "p", "o", "e", "t", "r", "y", ".", "d", "e", "p", "e", "n", "d", "e", "n", "c", "i", "e", "s", "]">>>>), FileOf(<<<<"[", "p", "r", "o", "j", "e", "c", "t", "]">>>>)}

InitEnv ==
    /\ PipelineIdle
    /\ pc = "call"
    /\ now = 0
    /\ \E py \in PoetryPyprojects, pkg \in PackageJsonFiles, present \in SUBSET Markers,
          enterable \in BOOLEAN :
          /\ ~enterable => present = Markers
          /\ call = [fn |-> "check_project_environment",
                     arg |-> [DirOf(<<"p">>, py, pkg, present) EXCEPT !.enterable = enterable],
                     ret |-> None]

CallCheckProjectEnvironment ==
    /\ pc = "call"
    /\ call.fn = "check_project_environment"
    /\ call' = [call EXCEPT !.ret = Some(check_project_environment(call.arg))]
    /\ pc' = "returned"
    /\ UNCHANGED <<now, root, args, scan, projects, out, blocks, stats>>

NextEnv == CallCheckProjectEnvironment

SpecEnv == InitEnv /\ [][NextEnv]_vars

\* what C7 says of a present node_info: its type and has_typescript
NodeInfoFields(data, info) ==
    /\ info.type = (IF IsNone(data.type) THEN "commonjs" ELSE Get(data.type))
    /\ LET keys(v) == IF IsNone(v) \/ Get(v).kind # "object" THEN {} ELSE Get(v).members
       IN  info.has_typescript <=>
              "typescript" \in keys(data.dependencies) \cup keys(data.devDependencies)

\* C7 as stated: node_info is present if and only if has_package_json is true and
\* package.json parsed as valid JSON; when present, type is the manifest's type or
\* commonjs, and has_typescript is true exactly when typescript is a key of
\* dependencies or of devDependencies; has_typescript implies has_package_json.
NodeInfoIffValidJson ==
    (pc = "returned" /\ call.fn = "check_project_environment") =>
        LET d == call.arg
            env == Get(call.ret)
        IN  /\ ~IsNone(env.node_info) <=> (env.has_package_json /\ d.package_json.state = "ok")
            /\ ~IsNone(env.node_info) =>
                  NodeInfoFields(d.package_json.data, Get(env.node_info))
            /\ NodeHasTypescript(env) => env.has_package_json

\* the values on which the test for typescript does not raise
Container(v) == IsNone(v) \/ Get(v).kind \in {"object", "array", "string"}

\* a mapping, or the key absent
Mapping(v) == IsNone(v) \/ Get(v).kind = "object"

\* the test for typescript in a container
Holds(v) ==
    /\ ~IsNone(v)
    /\ IF Get(v).kind = "string" THEN Contains(Get(v).text, Typescript)
       ELSE "typescript" \in Get(v).members

\* C7 as amended: node_info is present if and only if has_package_json is true,
\* package.json parsed as valid JSON, its top level is an object, and the tests for
\* typescript that the code evaluates do not raise (dependencies is a container,
\* and so is devDependencies unless typescript is in dependencies); when present,
\* type is the manifest's type or commonjs, has_typescript is true exactly when
\* typescript is in dependencies or in devDependencies, which for mappings means
\* it is a key of one of them; has_typescript implies has_package_json.
NodeInfoIffUsableManifest ==
    (pc = "returned" /\ call.fn = "check_project_environment") =>
        LET d == call.arg
            env == Get(call.ret)
            data == d.package_json.data
        IN  /\ ~IsNone(env.node_info) <=>
                  /\ env.has_package_json
                  /\ d.package_json.state = "ok"
                  /\ data.kind = "object"
                  /\ Container(data.dependencies)
                  /\ Holds(data.dependencies) \/ Container(data.devDependencies)
            /\ ~IsNone(env.node_info) =>
                  /\ Get(env.node_info).type
                        = (IF IsNone(data.type) THEN "commonjs" ELSE Get(data.type))
                  /\ Get(env.node_info).has_typescript
                        <=> (Holds(data.dependencies) \/ Holds(data.devDependencies))
                  /\ (Mapping(data.dependencies) /\ Mapping(data.devDependencies))
                        => NodeInfoFields(data, Get(env.node_info))
            /\ NodeHasTypescript(env) => env.has_package_json

\* A manifest without a type key and with typescript among its devDependencies
\* only has been read: node_info is present, commonjs, has_typescript.
NodeInfoWitness ==
    /\ pc = "returned"
    /\ call.fn = "check_project_environment"
    /\ call.arg.package_json.state = "ok"
    /\ call.arg.package_json.data.kind = "object"
    /\ IsNone(call.arg.package_json.data.type)
    /\ call.arg.package_json.data.dependencies = Some(JObject({"react"}))
    /\ call.arg.package_json.data.devDependencies = Some(JObject({"typescript"}))
    /\ ~IsNone(Get(call.ret).node_info)
    /\ Get(Get(call.ret).node_info).type = "commonjs"
    /\ Get(Get(call.ret).node_info).has_typescript


(***************************************************************************)
(* main, in three steps: the check of the root (lines 246-253), the call   *)
(* of scan_projects (line 254), and the rest (lines 256-320).              *)
(***************************************************************************)
main_check_root ==
    /\ pc = "start"
    /\ IF root.kind = "missing"
       THEN /\ out' = Append(out, "Error: Directory does not exist")
            /\ pc' = "done"
       ELSE /\ out' = Append(out, "Scanning directory")
            /\ pc' = "scan"
    /\ UNCHANGED <<now, root, args, scan, projects, blocks, stats, call>>

main_scan ==
    /\ pc = "scan"
    /\ \E r \in {scan_projects(root, now)} :
          /\ scan' = r
          /\ IF r.exit = "NotADirectoryError"
             THEN /\ pc' = "crashed"
                  /\ UNCHANGED <<projects, out>>
             ELSE /\ pc' = "report"
                  /\ projects' = r.ret
                  /\ out' = IF r.exit = "PermissionError"
                            THEN Append(out, "Error: Permission denied accessing")
                            ELSE out
    /\ UNCHANGED <<now, root, args, blocks, stats, call>>

main_report ==
    /\ pc = "report"
    /\ \E ps \in {ApplyLimit(ApplySort(ApplyFilters(projects, args), args), args)} :
          /\ projects' = ps
          /\ IF ps = <<>>
             THEN /\ out' = Append(out, "No projects found.")
                  /\ UNCHANGED <<blocks, stats>>
             ELSE /\ out' = out \o <<"Recent Projects:", "Project Statistics:">>
                  /\ blocks' = [i \in 1..Len(ps) |-> Block(ps[i])]
                  /\ stats' = Some(get_project_statistics(ps))
    /\ pc' = "done"
    /\ UNCHANGED <<now, root, args, scan, call>>

Next == main_check_root \/ main_scan \/ main_report

\* the state in which main starts, given the root on disk and the arguments
InitMain(roots, argss) ==
    /\ pc = "start"
    /\ now = 100
    /\ root \in roots
    /\ args \in argss
    /\ scan = NoScan
    /\ projects = <<>>
    /\ out = <<>>
    /\ blocks = <<>>
    /\ stats = None
    /\ call = NoCall

SortModes == {"date", "name", "python", "type"}

DefaultArgs ==
    [limit |-> None, uv_only |-> FALSE, poetry_only |-> FALSE, node_only |-> FALSE,
     typescript_only |-> FALSE, git_only |-> FALSE, sort |-> "date"]

\* the names of the entries of the root
Names == <<<<"b">>, <<"A">>, <<"a", "b">>, <<"a">>>>

Rooted(listings) == {[kind |-> "dir", listing |-> l] : l \in listings}

(***************************************************************************)
(* SpecScan: main on a root that is missing, a file, unlistable, or a      *)
(* directory of up to MaxEntries entries with every probe outcome.         *)
(***************************************************************************)
\* [], one unreadable file beside a readable one, two readable files
MtimeLists == {<<>>, <<None, Some(5)>>, <<Some(5), Some(9)>>}

GitOutcomes == {"ok", "nonzero", "absent"}

ScanEntries(name) ==
    {[DirOf(name, Absent, Absent, {}) EXCEPT !.kind = "file"]}
      \cup {[DirOf(name, FileOf(<<<<"r", "e", "q", "u", "i", "r", "e", "s", "-", "p", "y", "t", "h", "o", "n", " ", "=", " ", "\"", "3", ".", "8", "\"">>>>), Absent, {"uv.lock"})
                EXCEPT !.enterable = FALSE, !.mtimes = <<Some(9)>>, !.git = "ok"]}
      \cup {[DirOf(name, Absent, Absent, {}) EXCEPT !.mtimes = m, !.git = g] :
                m \in MtimeLists, g \in GitOutcomes}
      \cup {[DirOf(name, Unreadable, Invalid, {}) EXCEPT !.mtimes = <<None>>]}
      \cup {[DirOf(name, FileOf(<<<<"r", "e", "q", "u", "i", "r", "e", "s", "-", "p", "y", "t", "h", "o", "n", " ", "=", " ", "\"", "3", ".", "8", "\"">>>>),
                   FileOf(Manifest(Some("x"), Some("1.0"), None,
                                   Some(JObject({"typescript"})), None)),
                   {"uv.lock"}) EXCEPT !.mtimes = <<Some(5)>>, !.git = "ok"]}

RECURSIVE ScanListings(_)
ScanListings(n) ==
    IF n = 0 THEN {<<>>}
    ELSE {Append(l, e) : l \in ScanListings(n - 1), e \in ScanEntries(Names[n])}

ScanRoots ==
    {[kind |-> k, listing |-> <<>>] : k \in {"missing", "file", "unlistable"}}
      \cup Rooted(UNION {ScanListings(n) : n \in 0..MaxEntries})

SpecScan == InitMain(ScanRoots, {DefaultArgs}) /\ [][Next]_vars

\* the entries of the root that are directories
Subdirectories == SelectSeqBy(root.listing, {e \in Range(root.listing) : e.kind = "dir"})

\* C3: a missing root gives an error and no scan; an unlistable root gives an
\* error and an empty scan result; on every other existing root main runs to
\* its end and prints a report or No projects found, and never ends with an
\* uncaught exception.
MainAlwaysCompletes ==
    /\ (root.kind = "missing" /\ pc # "start") =>
          /\ pc = "done"
          /\ out = <<"Error: Directory does not exist">>
          /\ scan = NoScan
    /\ (root.kind = "unlistable" /\ pc \in {"report", "done"}) =>
          /\ scan.exit = "PermissionError"
          /\ scan.ret = <<>>
          /\ out[2] = "Error: Permission denied accessing"
    /\ pc # "crashed"
    /\ (root.kind # "missing" /\ pc = "done") =>
          out[Len(out)] \in {"No projects found.", "Project Statistics:"}

\* C4: on a listable root, whatever the probes of each subdirectory do,
\* scan_projects returns exactly one record for each immediate subdirectory and
\* none for the other entries, and is_git_repo answers False rather than raising.
OneRecordPerSubdirectory ==
    (root.kind = "dir" /\ pc \in {"report", "done"}) =>
        /\ \A i \in 1..Len(Subdirectories) :
              is_git_repo(Subdirectories[i]) \in {"True", "False"}
        /\ Len(scan.ret) = Len(Subdirectories)
        /\ {scan.ret[i].name : i \in 1..Len(scan.ret)}
              = {Subdirectories[i].name : i \in 1..Len(Subdirectories)}

\* the place of record p in the list the loop built, which is the order of the
\* directory listing
PlaceBuilt(p) == CHOOSE i \in 1..Len(scan.built) : scan.built[i] = p

VersionPyprojects ==
    {Absent,
     FileOf(<<<<"r", "e", "q", "u", "i", "r", "e", "s", "-", "p", "y", "t", "h", "o", "n", " ", "=", " ", "\"", "\"">>>>),
     FileOf(<<<<"r", "e", "q", "u", "i", "r", "e", "s", "-", "p", "y", "t", "h", "o", "n", " ", "=", " ", "\"", "3", ".", "1", "1", "\"">>>>),
     FileOf(<<<<"r", "e", "q", "u", "i", "r", "e", "s", "-", "p", "y", "t", "h", "o", "n", " ", "=", " ", "\"", "3", ".", "8", "\"">>>>)}

SortEntries == {DirOf(Names[i], f, Absent, {}) : i \in 1..Len(Names), f \in VersionPyprojects}

RECURSIVE SortListings(_)
\* listings of n entries with distinct names
SortListings(n) ==
    IF n = 0 THEN {<<>>}
    ELSE UNION {{Append(l, e) : e \in {x \in SortEntries :
                                          \A i \in 1..(n - 1) : l[i].name # x.name}} :
                l \in SortListings(n - 1)}

SortRoots == Rooted(UNION {SortListings(n) : n \in 0..Min(MaxEntries, Len(Names))})

SortArgs == {[DefaultArgs EXCEPT !.sort = m] : m \in SortModes}

SpecSort == InitMain(SortRoots, SortArgs) /\ [][Next]_vars

\* C8: with --sort python the result is a permutation of the filtered list in
\* which every record without a version comes before every record with a
\* non-empty one, versions ascend as strings, and records of the same version
\* (or all without) ascend by lower-cased name.
SortPythonOrder ==
    (pc = "done" /\ args.sort = "python") =>
        LET filtered == ApplyFilters(scan.ret, args)
            version(i) == IF IsNone(projects[i].python_version) THEN <<>>
                          ELSE Get(projects[i].python_version)
        IN  /\ Len(projects) = Len(filtered)
            /\ Range(projects) = Range(filtered)
            /\ \A i, j \in 1..Len(projects) :
                  /\ (IsNone(projects[i].python_version) /\ version(j) # <<>>) => i < j
                  /\ i < j => ~StrLess(version(j), version(i))
                  /\ (i < j /\ version(i) = version(j))
                        => ~StrLess(Lower(projects[j].name), Lower(projects[i].name))

\* Three projects have been sorted by version: the one without a version first,
\* then 3.11 before 3.8, in another order than the scan returned them.
SortPythonWitness ==
    /\ pc = "done"
    /\ args.sort = "python"
    /\ Len(projects) = 3
    /\ projects # scan.ret
    /\ IsNone(projects[1].python_version)
    /\ projects[2].python_version = Some(<<"3", ".", "1", "1">>)
    /\ projects[3].python_version = Some(<<"3", ".", "8">>)

(***************************************************************************)
(* Spec: main with every choice of filters, sort and limit on a directory  *)
(* of up to MaxProjects projects of every kind.                            *)
(***************************************************************************)
PoetryToml == FileOf(<<<<"[", "t", "o", "o", "l", ".", "p", "o", "e", "t", "r", "y", "]">>, <<"r", "e", "q", "u", "i", "r", "e", "s", "-", "p", "y", "t", "h", "o", "n", " ", "=", " ", "\"", "3", ".", "1", "1", "\"">>>>)
ProjectToml == FileOf(<<<<"[", "p", "r", "o", "j", "e", "c", "t", "]">>, <<"r", "e", "q", "u", "i", "r", "e", "s", "-", "p", "y", "t", "h", "o", "n", " ", "=", " ", "\"", "3", ".", "8", "\"">>>>)
JsManifest == FileOf(Manifest(Some("x"), Some("1.0"), None, Some(JObject({"react"})), None))
TsManifest ==
    FileOf(Manifest(Some("y"), Some("2.0"), Some("module"), None,
                    Some(JObject({"typescript"}))))

ReportEntries(name) ==
    {[DirOf(name,
            IF poetry THEN PoetryToml ELSE IF uv THEN ProjectToml ELSE Absent,
            IF node = "ts" THEN TsManifest ELSE IF node = "js" THEN JsManifest ELSE Absent,
            (IF uv THEN {"uv.lock"} ELSE {})
              \cup (IF node = "ts" THEN {"yarn.lock"} ELSE {})
              \cup (IF node = "js" THEN {"package-lock.json"} ELSE {}))
         EXCEPT !.mtimes = <<Some(5)>>, !.git = IF git THEN "ok" ELSE "nonzero"] :
       uv \in BOOLEAN, poetry \in BOOLEAN, node \in {"none", "js", "ts"}, git \in BOOLEAN}

RECURSIVE ReportListings(_)
ReportListings(n) ==
    IF n = 0 THEN {<<>>}
    ELSE {Append(l, e) : l \in ReportListings(n - 1), e \in ReportEntries(Names[n])}

ReportRoots == Rooted(UNION {ReportListings(n) : n \in 0..MaxProjects})

Limits == {None} \cup {Some(n) : n \in -1..MaxLimit}

AllArgs ==
    [limit : Limits, uv_only : BOOLEAN, poetry_only : BOOLEAN, node_only : BOOLEAN,
     typescript_only : BOOLEAN, git_only : BOOLEAN, sort : SortModes]

Spec == InitMain(ReportRoots, AllArgs) /\ [][Next]_vars

\* the filtered and sorted list main holds before it applies the limit
FilteredSorted == ApplySort(ApplyFilters(scan.ret, args), args)

\* C2: with --limit N, N >= 0, main renders and aggregates exactly the first
\* min(N, length) records of the filtered and sorted list; --limit 0 leaves none
\* and the report says No projects found.
LimitKeepsFirstN ==
    (pc = "done" /\ ~IsNone(args.limit) /\ Get(args.limit) >= 0) =>
        /\ projects = Take(FilteredSorted, Get(args.limit))
        /\ Len(blocks) = Len(projects)
        /\ Get(args.limit) = 0 =>
              (blocks = <<>> /\ stats = None /\ out[Len(out)] = "No projects found.")

\* record p passes every filter that is switched on
PassesFilters(p) ==
    /\ args.uv_only => p.environment_info.has_uv_lock
    /\ args.poetry_only => p.environment_info.is_poetry
    /\ args.node_only => p.environment_info.has_package_json
    /\ args.typescript_only => NodeHasTypescript(p.environment_info)
    /\ args.git_only => p.is_git

\* the statistics printed are those of the rendered records: total is the number
\* of blocks and every counter counts rendered records
StatsOverRendered ==
    /\ Len(blocks) = Len(projects)
    /\ \A i \in 1..Len(blocks) : blocks[i].name = projects[i].name
    /\ IsNone(stats) <=> blocks = <<>>
    /\ ~IsNone(stats) =>
          LET st == Get(stats)
              n(test(_)) == Cardinality({i \in 1..Len(projects) : test(projects[i])})
          IN  /\ st.total = Len(blocks)
              /\ st.git_repos = n(LAMBDA p : p.is_git)
              /\ st.uv_managed = n(LAMBDA p : p.environment_info.has_uv_lock)
              /\ st.poetry_managed = n(LAMBDA p : p.environment_info.is_poetry)
              /\ st.node_projects = n(LAMBDA p : p.environment_info.has_package_json)
              /\ st.typescript_projects = n(LAMBDA p : NodeHasTypescript(p.environment_info))
              /\ \A c \in {st.git_repos, st.uv_managed, st.poetry_managed, st.node_projects,
                           st.typescript_projects, st.npm, st.yarn, st.pnpm} : c <= st.total
              /\ \A v \in DOMAIN st.python_versions : st.python_versions[v] <= st.total

\* C9: for every choice of the five filters the rendered records are exactly the
\* scanned records that pass every active filter, capped by --limit, and the
\* statistics are those of the rendered records: total is the number of blocks and
\* no counter exceeds it.
RenderedAreFilteredCapped ==
    (pc = "done" /\ (IsNone(args.limit) \/ Get(args.limit) >= 0)) =>
        LET passing == {p \in Range(scan.ret) : PassesFilters(p)}
        IN  /\ Range(projects) \subseteq passing
            /\ Len(projects) = Cardinality(Range(projects))
            /\ Len(projects) = IF IsNone(args.limit) THEN Cardinality(passing)
                               ELSE Min(Get(args.limit), Cardinality(passing))
            /\ StatsOverRendered

\* The part of C9 that does not rest on the cap: what is rendered passes every
\* active filter, nothing that passes is left out when no limit is given, and the
\* statistics are those of the rendered records.
RenderedPassFilters ==
    pc = "done" =>
        LET passing == {p \in Range(scan.ret) : PassesFilters(p)}
        IN  /\ Range(projects) \subseteq passing
            /\ IsNone(args.limit) => Range(projects) = passing
            /\ StatsOverRendered


====
